---- MODULE Spec2Model ----
(***************************************************************************)
(* Model of the service cache of polaris (cache/service.go): the           *)
(* single-flight refresh (update / realUpdate / checkAll), the incremental *)
(* merge (setServices / removeServices / updateCl5SidAndNames), the alias  *)
(* post-pass (postProcessServiceAlias) and the namespace recount           *)
(* (postProcessUpdatedServices / appendServiceCountChangeNamespace /       *)
(* notifyServiceCountReload).                                              *)
(***************************************************************************)
EXTENDS Integers, Sequences, FiniteSets, TLC

----------------------------------------------------------------------------
(* Bounds of the model *)

\* capacity of the revision channel (chan *revisionNotify)
ChanCap == 1
\* number of refreshes (single-flight executions) a behaviour starts
MaxRefresh == 3
\* the clock runs from checkAllIntervalSec to MaxTime
MaxTime == 4
\* largest modify time a fetched record carries
MaxMtime == 2

\* seconds between two drift checks (a constant of the cache package)
checkAllIntervalSec == 2

----------------------------------------------------------------------------
(* The universe of entities *)

IDs == {"y", "z"}
Namespaces == {"n1", "n2"}
Names == {"a", "b"}
\* values of the metadata key internal-cl5-name
Cl5Values == {"v"}
Callers == {"c1", "c2", "c3"}

NoRef == ""
NoSvc == [id |-> ""]
NoMeta == "-"
\* the metadata carries internal-cl5-sid but no internal-cl5-name
SidOnly == "+"

\* model.Service: Meta is reduced to the two keys the cache reads
Services(I, NS, NM, R, V, M) ==
    [id : I, ns : NS, name : NM, ref : R, valid : V, cl5 : M]

AllServices ==
    Services(IDs, Namespaces, Names, IDs \cup {NoRef}, BOOLEAN,
             {NoMeta, SidOnly} \cup Cl5Values)

\* a fetched batch is a map id -> service: a set of services with pairwise
\* distinct identifiers
BatchIds(b) == {s.id : s \in b}

RECURSIVE BatchesOver(_, _)
BatchesOver(ids, univ) ==
    IF ids = {} THEN {{}}
    ELSE LET i == CHOOSE x \in ids : TRUE
             rest == BatchesOver(ids \ {i}, univ)
         IN rest \cup {b \cup {s} : b \in rest, s \in {u \in univ : u.id = i}}

----------------------------------------------------------------------------
(* Pure helpers *)

IsAlias(s) == s.ref # NoRef

HasCl5Sid(s) == s.cl5 # NoMeta

HasCl5Name(s) == s.cl5 \in Cl5Values

genCl5Name(name) == "cl5." \o name

Cl5Keys == {genCl5Name(v) : v \in Cl5Values}

NoName == ""
NoMap == [n \in {} |-> NoSvc]
EmptySpace == [n \in Names |-> NoSvc]
NoCnt == [svc |-> -1, total |-> -1, healthy |-> -1]
ZeroCnt == [svc |-> 0, total |-> 0, healthy |-> 0]

Max(a, b) == IF a < b THEN b ELSE a

\* the elements of q after the first n
Suffix(q, n) == SubSeq(q, n + 1, Len(q))


InstCounts ==
    {[total |-> 0, healthy |-> 0], [total |-> 1, healthy |-> 0],
     [total |-> 1, healthy |-> 1]}

----------------------------------------------------------------------------
(* State *)

VARIABLES
    \* serviceCache fields
    ids,                 \* service_id -> service (NoSvc: no entry)
    names,               \* namespace -> [serviceName -> service] (NoMap: no entry)
    cl5Sid2Name,         \* sid (service name) -> cl5 name (NoName: no entry)
    cl5Names,            \* cl5 name -> service
    alias,               \* the alias bucket: a set of links
    pendingServices,     \* service ids waiting for a recount
    namespaceServiceCnt, \* namespace -> NamespaceServiceCount (NoCnt: no entry)
    serviceCount,        \* the running total
    lastCheckAllTime,
    revisionCh,          \* the bounded channel of revisionNotify messages
    \* baseCache fields
    lastMtime,           \* the high-watermark of the cache name "service"
    firstUpdate,
    \* collaborators
    now,                 \* time.Now().Unix()
    instCount,           \* instCache.GetInstancesCountByServiceID
    \* singleflight.Group and the callers of update()
    pc,                  \* caller -> "idle" | "wait" | "lead" | "done"
    ret,                 \* caller -> what its last update() returned
    upc,                 \* position of the one execution inside Do
    flightErr,           \* the error the execution returns ("none" until known)
    \* locals of setServices / postProcessUpdatedServices
    mpc, batch, todo, cur, svcCount, changeNs, aliases, mtimeL, affect,
    \* history variables of the properties
    nRefresh,            \* executions started so far
    fetches,             \* GetMoreServices calls of the current execution
    joined,              \* callers sharing the current execution
    running,             \* callers executing the function passed to Do
    sent,                \* messages published by the current merge
    pre,                 \* the cache when the current merge began
    remerge,             \* the batch the store delivers again next
    wmBefore,            \* the high-watermark when the current execution began
    known,               \* ids indexed and pending when the execution began
    delInfo,             \* per id: the counts before the merge that soft-deleted it
    \* GetOrLoadServiceByID
    loading,             \* the id whose cache-miss load is in flight (NoRef: none)
    \* history variables of the drift check
    drift,               \* the store's count when the latest checkAll found a mismatch
    queried,             \* the times at which checkAll asked the store for its count
    \* history variable of the recount
    affected,            \* the affected set the latest drain handed to the recount
    noted                \* ids whose recount notification the execution has to serve

cacheVars == <<ids, names, cl5Sid2Name, cl5Names, alias, namespaceServiceCnt,
               serviceCount>>
baseVars == <<lastMtime, firstUpdate, lastCheckAllTime>>
envVars == <<now, instCount>>
callVars == <<pc, ret, upc, flightErr>>
mergeVars == <<mpc, batch, todo, cur, svcCount, changeNs, aliases, mtimeL, affect>>
histVars == <<nRefresh, fetches, joined, running, sent, pre, remerge, wmBefore,
              known, delInfo>>

opVars == <<loading, drift, queried, affected, noted>>

vars == <<cacheVars, pendingServices, revisionCh, baseVars, envVars, callVars,
          mergeVars, histVars, opVars>>

\* what a reader can observe of the indices and the counts
Snapshot ==
    [ids |-> ids, names |-> names, cl5Sid2Name |-> cl5Sid2Name,
     cl5Names |-> cl5Names, alias |-> alias,
     namespaceServiceCnt |-> namespaceServiceCnt,
     serviceCount |-> serviceCount]

NoPre == [ids |-> <<>>]
NoRet == [n |-> 0, out |-> "none"]
NoBatch == {NoSvc}
\* setServices returns a nil map for an empty batch
NilMtimes == -1
\* no drift found by the latest checkAll
NoDrift == -1
DelOff == [on |-> FALSE, solo |-> FALSE, total |-> 0, all |-> 0]
NoDel == [id \in IDs |-> DelOff]

\* newServiceCache + initialize: empty maps, zero counters
Init ==
    /\ ids = [i \in IDs |-> NoSvc]
    /\ names = [n \in Namespaces |-> NoMap]
    /\ cl5Sid2Name = [n \in Names |-> NoName]
    /\ cl5Names = [k \in Cl5Keys |-> NoSvc]
    /\ alias = {}
    /\ pendingServices = {}
    /\ namespaceServiceCnt = [n \in Namespaces |-> NoCnt]
    /\ serviceCount = 0
    /\ lastCheckAllTime = 0
    /\ revisionCh = <<>>
    /\ lastMtime = 0
    /\ firstUpdate = TRUE
    /\ now = checkAllIntervalSec
    /\ instCount = [i \in IDs |-> [total |-> 0, healthy |-> 0]]
    /\ pc = [c \in Callers |-> "idle"]
    /\ ret = [c \in Callers |-> NoRet]
    /\ upc = "idle"
    /\ flightErr = "none"
    /\ mpc = "idle"
    /\ batch = {}
    /\ todo = {}
    /\ cur = NoSvc
    /\ svcCount = 0
    /\ changeNs = {}
    /\ aliases = {}
    /\ mtimeL = NilMtimes
    /\ affect = {}
    /\ nRefresh = 0
    /\ fetches = 0
    /\ joined = {}
    /\ running = {}
    /\ sent = <<>>
    /\ pre = NoPre
    /\ remerge = NoBatch
    /\ wmBefore = 0
    /\ known = {}
    /\ delInfo = NoDel
    /\ loading = NoRef
    /\ drift = NoDrift
    /\ queried = <<>>
    /\ affected = {}
    /\ noted = {}


----------------------------------------------------------------------------
(* The indices: what each map operation of the cache does *)

Present(m) == {k \in DOMAIN m : m[k] # NoSvc}

\* GetServicesCount: ranges over ids and counts the entries
GetServicesCount == Cardinality(Present(ids))

\* GetServiceByID
GetServiceByID(id) == IF id \in DOMAIN ids THEN ids[id] ELSE NoSvc

\* GetServiceByName
GetServiceByName(name, namespace) ==
    IF names[namespace] = NoMap THEN NoSvc ELSE names[namespace][name]

\* GetServiceByCl5Name
GetServiceByCl5Name(cl5Name) ==
    IF genCl5Name(cl5Name) \in DOMAIN cl5Names
    THEN cl5Names[genCl5Name(cl5Name)] ELSE NoSvc

\* GetNamespaceCntInfo: the zero value when the namespace has no entry
GetNamespaceCntInfo(namespace) ==
    IF namespaceServiceCnt[namespace] = NoCnt THEN ZeroCnt
    ELSE namespaceServiceCnt[namespace]

(* The alias bucket: a link remembers the alias and the target it was made for *)
Link(a, t) == [aid |-> a.id, tid |-> t.id, tns |-> t.ns, tname |-> t.name]

addServiceAlias(al, a, t) == al \cup {Link(a, t)}

delServiceAlias(al, a, t) ==
    {l \in al : ~(l.aid = a.id /\ l.tns = t.ns /\ l.tname = t.name)}

\* purge: every link that touches the entity, as alias or as target
cleanServiceAlias(al, s) == {l \in al : l.aid # s.id /\ l.tid # s.id}

getServiceAliases(al, namespace, name) ==
    {l \in al : l.tns = namespace /\ l.tname = name}

\* ListServiceAlias
ListServiceAlias(namespace, name) ==
    {l.aid : l \in getServiceAliases(alias, namespace, name)}

(* removeServices, index by index *)
RemovedIds(m, s) == [m EXCEPT ![s.id] = NoSvc]

RemovedNames(nm, s) ==
    IF nm[s.ns] # NoMap THEN [nm EXCEPT ![s.ns][s.name] = NoSvc] ELSE nm

RemovedSid2Name(sn, s) ==
    IF sn[s.name] # NoName THEN [sn EXCEPT ![s.name] = NoName] ELSE sn

RemovedCl5Names(cn, sn, s) ==
    IF sn[s.name] # NoName THEN [cn EXCEPT ![sn[s.name]] = NoSvc] ELSE cn

(* the upsert branch of setServices, index by index *)
StoredNames(nm, s) ==
    LET spaces == IF nm[s.ns] = NoMap THEN EmptySpace ELSE nm[s.ns]
    IN [nm EXCEPT ![s.ns] = [spaces EXCEPT ![s.name] = s]]

\* updateCl5SidAndNames
UpdatedSid2Name(sn, s) ==
    IF ~HasCl5Sid(s) THEN sn
    ELSE IF ~HasCl5Name(s) THEN [sn EXCEPT ![s.name] = NoName]
    ELSE [sn EXCEPT ![s.name] = genCl5Name(s.cl5)]

UpdatedCl5Names(cn, sn, s) ==
    IF ~HasCl5Sid(s) THEN cn
    ELSE IF ~HasCl5Name(s)
         THEN IF sn[s.name] # NoName THEN [cn EXCEPT ![sn[s.name]] = NoSvc] ELSE cn
    ELSE [cn EXCEPT ![genCl5Name(s.cl5)] = s]

RECURSIVE PostAliasLinksAll(_, _, _)
PostAliasLinksAll(al, as, idx) ==
    IF as = {} THEN al
    ELSE LET a == CHOOSE x \in as : TRUE
             aliasForExist == a.ref \in DOMAIN idx /\ idx[a.ref] # NoSvc
             next == IF ~aliasForExist THEN al
                     ELSE addServiceAlias(al, a, idx[a.ref])
         IN PostAliasLinksAll(next, as \ {a}, idx)

PostAliasNone(al, as, idx) == al

(* postProcessServiceAlias, over the aliases the batch carried *)
RECURSIVE PostAlias(_, _, _)
PostAlias(al, as, idx) ==
    IF as = {} THEN al
    ELSE LET a == CHOOSE x \in as : TRUE
             aliasExist == idx[a.id] # NoSvc
             aliasForExist == a.ref \in DOMAIN idx /\ idx[a.ref] # NoSvc
             next == IF ~aliasForExist THEN al
                     ELSE IF aliasExist THEN addServiceAlias(al, a, idx[a.ref])
                     ELSE delServiceAlias(al, a, idx[a.ref])
         IN PostAlias(next, as \ {a}, idx)

(* postProcessUpdatedServices: the recount of one namespace *)
RECURSIVE SumCnt(_, _, _)
SumCnt(space, keys, ic) ==
    IF keys = {} THEN ZeroCnt
    ELSE LET k == CHOOSE x \in keys : TRUE
             r == SumCnt(space, keys \ {k}, ic)
             insCnt == ic[space[k].id]
         IN [svc |-> r.svc + 1, total |-> r.total + insCnt.total,
             healthy |-> r.healthy + insCnt.healthy]

Recounted(cnt, nm, ic, namespace) ==
    IF nm[namespace] = NoMap THEN [cnt EXCEPT ![namespace] = NoCnt]
    ELSE [cnt EXCEPT ![namespace] =
              SumCnt(nm[namespace], Present(nm[namespace]), ic)]

DrainableNone(pending, idx) == {}

(* appendServiceCountChangeNamespace *)
Drainable(pending, idx) == {p \in pending : idx[p] # NoSvc}

DrainedNs(pending, idx) == {idx[p].ns : p \in Drainable(pending, idx)}

\* the pending set as the drain leaves it
Drained(pending, idx) == pending \ Drainable(pending, idx)


----------------------------------------------------------------------------
(* update(): singleflight.Do and the callers *)

SfNeverInFlight == FALSE

\* Do finds a call of the key in flight
SfInFlight == upc # "idle"

\* the results Do hands to the callers that share the execution
SfShared(c) == [n |-> nRefresh, out |-> flightErr]

\* a caller enters update(): it joins the execution in flight or starts one
UpdateCall(c) ==
    /\ pc[c] = "idle"
    /\ IF SfInFlight
       THEN /\ pc' = [pc EXCEPT ![c] = "wait"]
            /\ joined' = joined \cup {c}
            /\ UNCHANGED <<upc, flightErr, nRefresh, fetches, running, wmBefore,
                           known, noted>>
       ELSE /\ nRefresh < MaxRefresh
            /\ pc' = [pc EXCEPT ![c] = "lead"]
            /\ joined' = IF running = {} THEN {c} ELSE joined \cup {c}
            /\ running' = running \cup {c}
            /\ upc' = "fetch"
            /\ flightErr' = "none"
            /\ nRefresh' = nRefresh + 1
            /\ fetches' = IF running = {} THEN 0 ELSE fetches
            /\ wmBefore' = lastMtime
            /\ known' = Drainable(pendingServices, ids)
            /\ noted' = pendingServices
    /\ UNCHANGED <<loading, drift, queried, affected, cacheVars, pendingServices, revisionCh, baseVars, envVars,
                   ret, mergeVars, sent, pre, remerge, delInfo>>

\* realUpdate: GetMoreServices returns an error; doCacheUpdate returns it
FetchFail ==
    /\ upc = "fetch"
    /\ remerge = NoBatch
    /\ fetches' = fetches + 1
    /\ flightErr' = "err"
    /\ upc' = "defer"
    /\ UNCHANGED <<opVars, cacheVars, pendingServices, revisionCh, baseVars, envVars,
                   pc, ret, mergeVars, nRefresh, joined, running, sent, pre,
                   remerge, wmBefore, known, delInfo>>

\* the ids a merge of b soft-deletes while they are in the primary index
SoftDeleted(b) == {s.id : s \in {x \in b : ~x.valid /\ ids[x.id] # NoSvc}}

DelInfoAtStart(b) ==
    [i \in IDs |->
        IF i \in SoftDeleted(b)
        THEN [on |-> TRUE, solo |-> Cardinality(b) = 1,
              total |-> IF Cardinality(b) = 1 THEN serviceCount ELSE 0,
              all |-> IF Cardinality(b) = 1 THEN GetServicesCount ELSE 0]
        ELSE IF delInfo[i].on /\ ~(\E s \in b : b = {s} /\ s.id = i /\ s.valid)
        THEN [on |-> TRUE, solo |-> FALSE, total |-> 0, all |-> 0]
        ELSE delInfo[i]]

\* realUpdate: GetMoreServices returns the batch b, whose latest ModifyTime is
\* m; setServices starts (an empty batch returns at once)
FetchOk(b, m) ==
    /\ upc = "fetch"
    /\ remerge # NoBatch => b = remerge
    /\ fetches' = fetches + 1
    /\ batch' = b
    /\ pre' = Snapshot
    /\ IF b = {}
       THEN /\ upc' = "commit"
            /\ mtimeL' = NilMtimes
            /\ UNCHANGED <<mpc, todo, svcCount, changeNs, aliases, delInfo>>
       ELSE /\ upc' = "merge"
            /\ mpc' = "loop"
            /\ todo' = b
            /\ mtimeL' = Max(lastMtime, m)
            /\ svcCount' = serviceCount
            /\ changeNs' = {}
            /\ aliases' = {}
            /\ delInfo' = DelInfoAtStart(b)
    /\ sent' = <<>>
    /\ UNCHANGED <<opVars, cacheVars, pendingServices, revisionCh, baseVars, envVars,
                   pc, ret, flightErr, cur, affect, nRefresh, joined, running,
                   remerge, wmBefore, known>>


----------------------------------------------------------------------------
(* setServices: the loop over the batch.  Go ranges over the map in an      *)
(* unspecified order: any record still to do may come next.                 *)

CanSendAlways(ch) == TRUE

\* the send on revisionCh can proceed
CanSend(ch) == Len(ch) < ChanCap

PublishedUpsertsOnly(ch, id, exists) ==
    IF exists THEN Append(ch, [id |-> id, exists |-> exists]) ELSE ch

\* revisionCh <- newRevisionNotify(id, exists)
Published(ch, id, exists) == Append(ch, [id |-> id, exists |-> exists])

CountedUpsertAlways(n, exist) == n + 1

\* the running total as the upsert branch leaves it
CountedUpsert(n, exist) == IF ~exist THEN n + 1 ELSE n

\* the running total as the delete branch leaves it
CountedDelete(n) == n - 1

\* one iteration up to its send: a soft-delete runs removeServices, an upsert
\* stores into ids
LoopStep(s) ==
    /\ upc = "merge"
    /\ mpc = "loop"
    /\ s \in todo
    /\ todo' = todo \ {s}
    /\ cur' = s
    /\ aliases' = IF IsAlias(s) THEN aliases \cup {s} ELSE aliases
    /\ changeNs' = changeNs \cup {s.ns}
    /\ IF ~s.valid
       THEN /\ ids' = RemovedIds(ids, s)
            /\ alias' = cleanServiceAlias(alias, s)
            /\ pendingServices' = pendingServices \ {s.id}
            /\ names' = RemovedNames(names, s)
            /\ cl5Sid2Name' = RemovedSid2Name(cl5Sid2Name, s)
            /\ cl5Names' = RemovedCl5Names(cl5Names, cl5Sid2Name, s)
            /\ svcCount' = svcCount
            /\ mpc' = "rm_send"
       ELSE /\ svcCount' = CountedUpsert(svcCount, ids[s.id] # NoSvc)
            /\ ids' = [ids EXCEPT ![s.id] = s]
            /\ mpc' = "up_send"
            /\ UNCHANGED <<alias, pendingServices, names, cl5Sid2Name, cl5Names>>
    /\ UNCHANGED <<opVars, namespaceServiceCnt, serviceCount, revisionCh, baseVars,
                   envVars, callVars, batch, mtimeL, affect, histVars>>

\* the delete branch publishes exists=false, then counts the delete
SendDelete ==
    /\ upc = "merge"
    /\ mpc = "rm_send"
    /\ CanSend(revisionCh)
    /\ revisionCh' = Published(revisionCh, cur.id, FALSE)
    /\ sent' = sent \o Suffix(revisionCh', Len(revisionCh))
    /\ svcCount' = CountedDelete(svcCount)
    /\ mpc' = "loop"
    /\ cur' = NoSvc
    /\ UNCHANGED <<opVars, cacheVars, pendingServices, baseVars, envVars, callVars,
                   batch, todo, changeNs, aliases, mtimeL, affect, nRefresh,
                   fetches, joined, running, pre, remerge, wmBefore, known,
                   delInfo>>

\* the upsert branch publishes exists=true before it stores into names
SendUpsert ==
    /\ upc = "merge"
    /\ mpc = "up_send"
    /\ CanSend(revisionCh)
    /\ revisionCh' = Published(revisionCh, cur.id, TRUE)
    /\ sent' = sent \o Suffix(revisionCh', Len(revisionCh))
    /\ mpc' = "up_names"
    /\ UNCHANGED <<opVars, cacheVars, pendingServices, baseVars, envVars, callVars,
                   batch, todo, cur, svcCount, changeNs, aliases, mtimeL, affect,
                   nRefresh, fetches, joined, running, pre, remerge, wmBefore,
                   known, delInfo>>

\* the upsert branch stores into names and updates the cl5 maps
StoreNames ==
    /\ upc = "merge"
    /\ mpc = "up_names"
    /\ names' = StoredNames(names, cur)
    /\ cl5Sid2Name' = UpdatedSid2Name(cl5Sid2Name, cur)
    /\ cl5Names' = UpdatedCl5Names(cl5Names, cl5Sid2Name, cur)
    /\ mpc' = "loop"
    /\ cur' = NoSvc
    /\ UNCHANGED <<opVars, ids, alias, namespaceServiceCnt, serviceCount,
                   pendingServices, revisionCh, baseVars, envVars, callVars,
                   batch, todo, svcCount, changeNs, aliases, mtimeL, affect,
                   histVars>>

\* after the loop: the running total is written back, the aliases the batch
\* carried are linked or unlinked (postProcessServiceAlias)
LoopEnd ==
    /\ upc = "merge"
    /\ mpc = "loop"
    /\ todo = {}
    /\ serviceCount' = svcCount
    /\ alias' = PostAlias(alias, aliases, ids)
    /\ mpc' = "drain"
    /\ UNCHANGED <<opVars, ids, names, cl5Sid2Name, cl5Names, namespaceServiceCnt,
                   pendingServices, revisionCh, baseVars, envVars, callVars,
                   batch, todo, cur, svcCount, changeNs, aliases, mtimeL, affect,
                   histVars>>

\* postProcessUpdatedServices begins: appendServiceCountChangeNamespace
\* drains the pending ids already in ids, under plock
Drain ==
    /\ upc = "merge"
    /\ mpc = "drain"
    /\ affect' = changeNs \cup DrainedNs(pendingServices, ids)
    /\ affected' = affect'
    /\ pendingServices' = Drained(pendingServices, ids)
    /\ mpc' = "recount"
    /\ UNCHANGED <<loading, drift, queried, noted, cacheVars, revisionCh, baseVars, envVars, callVars, batch,
                   todo, cur, svcCount, changeNs, aliases, mtimeL, histVars>>

\* the recount stands inside the Range over the services of the namespace
RangeAt(namespace) == "range." \o namespace

\* the aggregate of the namespace as LoadOrStore and the two resets leave it:
\* the stored object is zeroed in place, before the Range counts
ResetCnt(cnt, namespace) == [cnt EXCEPT ![namespace] = ZeroCnt]

\* postProcessUpdatedServices: the aggregate of one namespace of the affected
\* set, which names knows, is zeroed in the map
ResetCount(namespace) ==
    /\ upc = "merge"
    /\ mpc = "recount"
    /\ namespace \in affect
    /\ names[namespace] # NoMap
    /\ namespaceServiceCnt' = ResetCnt(namespaceServiceCnt, namespace)
    /\ mpc' = RangeAt(namespace)
    /\ UNCHANGED <<opVars, ids, names, cl5Sid2Name, cl5Names, alias, serviceCount,
                   pendingServices, revisionCh, baseVars, envVars, callVars,
                   batch, todo, cur, svcCount, changeNs, aliases, mtimeL, affect,
                   histVars>>

\* postProcessUpdatedServices: the Range over the namespace counts its
\* services and their instances; the aggregate of a namespace names does not
\* know is deleted at once
Recount(namespace) ==
    /\ upc = "merge"
    /\ \/ mpc = RangeAt(namespace)
       \/ mpc = "recount" /\ names[namespace] = NoMap
    /\ namespace \in affect
    /\ affect' = affect \ {namespace}
    /\ namespaceServiceCnt' =
           Recounted(namespaceServiceCnt, names, instCount, namespace)
    /\ mpc' = "recount"
    /\ UNCHANGED <<opVars, ids, names, cl5Sid2Name, cl5Names, alias, serviceCount,
                   pendingServices, revisionCh, baseVars, envVars, callVars,
                   batch, todo, cur, svcCount, changeNs, aliases, mtimeL,
                   histVars>>

\* setServices returns the latest modify time to realUpdate and doCacheUpdate
MergeReturn ==
    /\ upc = "merge"
    /\ mpc = "recount"
    /\ affect = {}
    /\ mpc' = "idle"
    /\ upc' = "commit"
    /\ UNCHANGED <<opVars, cacheVars, pendingServices, revisionCh, baseVars, envVars,
                   pc, ret, flightErr, batch, todo, cur, svcCount, changeNs,
                   aliases, mtimeL, affect, histVars>>


----------------------------------------------------------------------------
(* doCacheUpdate's tail, the deferred checkAll, and the return of Do *)

\* doCacheUpdate after a successful executor: the high-watermark takes the
\* latest modify time the merge returned (a nil map leaves it alone)
Advanced(wm, mtimes) == IF mtimes = NilMtimes THEN wm ELSE mtimes

Commit ==
    /\ upc = "commit"
    /\ lastMtime' = Advanced(lastMtime, mtimeL)
    /\ firstUpdate' = FALSE
    /\ flightErr' = "ok"
    /\ upc' = "defer"
    /\ UNCHANGED <<opVars, cacheVars, pendingServices, revisionCh, lastCheckAllTime,
                   envVars, pc, ret, mergeVars, histVars>>

\* what GetServicesCount of the store may answer: -1 stands for an error
StoreCounts == -1 .. Cardinality(IDs)

CheckDueAlways == TRUE

\* checkAll went past its throttle
CheckDue == ~(now - lastCheckAllTime < checkAllIntervalSec)

\* resetLastMtime or not, by what the store's count query answered
\* resetLastMtime: the high-watermark rewound
Rewound == 0

\* the store answered and its count is not the running total
Mismatch(total, count) == count # -1 /\ total # count

CheckedAdvances(wm, total, count) ==
    IF count = -1 THEN wm
    ELSE IF total = count THEN wm
    ELSE wm + 1

Checked(wm, total, count) ==
    IF count = -1 THEN wm
    ELSE IF total = count THEN wm
    ELSE Rewound

\* the deferred function of update(): checkAll, after a refresh that failed
\* as after one that succeeded
CheckAll(count) ==
    /\ upc = "defer"
    /\ IF CheckDue
       THEN /\ lastCheckAllTime' = now
            /\ lastMtime' = Checked(lastMtime, serviceCount, count)
            /\ queried' = Append(queried, now)
            /\ drift' = IF Mismatch(serviceCount, count) THEN count ELSE NoDrift
       ELSE /\ count = -1
            /\ drift' = NoDrift
            /\ UNCHANGED <<lastCheckAllTime, lastMtime, queried>>
    /\ upc' = "ret"
    /\ UNCHANGED <<loading, affected, noted, cacheVars, pendingServices, revisionCh, firstUpdate, envVars,
                   pc, ret, flightErr, mergeVars, histVars>>

\* Do returns: the leader and every caller that joined get the one result.
\* again: the store delivers the same batch to the next refresh
SfReturn(again) ==
    /\ upc = "ret"
    /\ pc' = [c \in Callers |-> IF pc[c] \in {"wait", "lead"} THEN "done" ELSE pc[c]]
    /\ ret' = [c \in Callers |-> IF pc[c] \in {"wait", "lead"} THEN SfShared(c)
                                 ELSE ret[c]]
    /\ upc' = "idle"
    /\ running' = {}
    /\ remerge' = IF again /\ flightErr = "ok" /\ batch # {} THEN batch ELSE NoBatch
    /\ delInfo' = [i \in IDs |->
                      IF \E s \in batch : s.id = i /\ s.valid /\ flightErr = "ok"
                      THEN DelOff ELSE delInfo[i]]
    /\ batch' = {}
    /\ cur' = NoSvc
    /\ svcCount' = 0
    /\ changeNs' = {}
    /\ aliases' = {}
    /\ mtimeL' = NilMtimes
    /\ sent' = <<>>
    /\ pre' = NoPre
    /\ affected' = {}
    /\ noted' = {}
    /\ UNCHANGED <<loading, drift, queried, cacheVars, pendingServices, revisionCh, baseVars, envVars,
                   flightErr, mpc, todo, affect, nRefresh, fetches, joined,
                   wmBefore, known>>

\* update() has returned to the caller, which may call again
CallerReturn(c) ==
    /\ pc[c] = "done"
    /\ pc' = [pc EXCEPT ![c] = "idle"]
    /\ ret' = [ret EXCEPT ![c] = NoRet]
    /\ UNCHANGED <<opVars, cacheVars, pendingServices, revisionCh, baseVars, envVars,
                   upc, flightErr, mergeVars, histVars>>

----------------------------------------------------------------------------
(* The environment *)

\* the consumer of the revision channel receives one message
Receive ==
    /\ revisionCh # <<>>
    /\ revisionCh' = Tail(revisionCh)
    /\ UNCHANGED <<opVars, cacheVars, pendingServices, baseVars, envVars, callVars,
                   mergeVars, histVars>>

\* a second passes
Tick ==
    /\ now < MaxTime
    /\ now' = now + 1
    /\ UNCHANGED <<opVars, cacheVars, pendingServices, revisionCh, baseVars, instCount,
                   callVars, mergeVars, histVars>>

\* notifyServiceCountReload, under plock.RLock
Notified(pending, svcIds) == pending \cup svcIds

\* the instance cache reloads the counts of svcIds and notifies
\* (watchInstanceReload.OnBatchUpdated -> notifyServiceCountReload)
InstanceReload(svcIds, cnt) ==
    /\ svcIds # {}
    /\ instCount' = [i \in IDs |-> IF i \in svcIds THEN cnt ELSE instCount[i]]
    /\ pendingServices' = Notified(pendingServices, svcIds)
    /\ known' = known \ svcIds
    /\ noted' = IF upc = "idle" THEN noted ELSE noted \cup svcIds
    /\ UNCHANGED <<loading, drift, queried, affected, cacheVars, revisionCh, baseVars, now, callVars, mergeVars,
                   nRefresh, fetches, joined, running, sent, pre, remerge,
                   wmBefore, delInfo>>


----------------------------------------------------------------------------
(* The operations beside the refresh *)

\* GetOrLoadServiceByID: ids.Load misses, the caller goes to the store
LoadMiss(id) ==
    /\ loading = NoRef
    /\ GetServiceByID(id) = NoSvc
    /\ loading' = id
    /\ UNCHANGED <<cacheVars, pendingServices, revisionCh, baseVars, envVars,
                   callVars, mergeVars, histVars, drift, queried, affected,
                   noted>>

\* the index as the cache-miss load leaves it: only ids takes the service
Loaded(m, svc) == [m EXCEPT ![svc.id] = svc]

\* GetOrLoadServiceByID: the store answers with the service, which goes into
\* ids
LoadStore(svc) ==
    /\ loading # NoRef
    /\ svc.id = loading
    /\ ids' = Loaded(ids, svc)
    /\ loading' = NoRef
    /\ UNCHANGED <<names, cl5Sid2Name, cl5Names, alias, namespaceServiceCnt,
                   serviceCount, pendingServices, revisionCh, baseVars, envVars,
                   callVars, mergeVars, histVars, drift, queried, affected,
                   noted>>

\* GetOrLoadServiceByID: the store answers nil or an error; nothing is stored
LoadNone ==
    /\ loading # NoRef
    /\ loading' = NoRef
    /\ UNCHANGED <<cacheVars, pendingServices, revisionCh, baseVars, envVars,
                   callVars, mergeVars, histVars, drift, queried, affected,
                   noted>>

\* CleanNamespace: names.Delete(namespace)
CleanedNames(nm, namespace) == [nm EXCEPT ![namespace] = NoMap]

CleanNamespace(namespace) ==
    /\ names' = CleanedNames(names, namespace)
    /\ UNCHANGED <<ids, cl5Sid2Name, cl5Names, alias, namespaceServiceCnt,
                   serviceCount, pendingServices, revisionCh, baseVars, envVars,
                   callVars, mergeVars, histVars, opVars>>

\* the maps and the alias bucket as clear() leaves them
Cleared ==
    [ids |-> [i \in IDs |-> NoSvc],
     names |-> [n \in Namespaces |-> NoMap],
     cl5Sid2Name |-> [n \in Names |-> NoName],
     cl5Names |-> [k \in Cl5Keys |-> NoSvc],
     alias |-> {},
     pendingServices |-> {},
     namespaceServiceCnt |-> [n \in Namespaces |-> NoCnt]]

\* the maps and the alias bucket as they are
Indices ==
    [ids |-> ids, names |-> names, cl5Sid2Name |-> cl5Sid2Name,
     cl5Names |-> cl5Names, alias |-> alias,
     pendingServices |-> pendingServices,
     namespaceServiceCnt |-> namespaceServiceCnt]

\* clear(): baseCache.clear() rewinds the high-watermark, every map and the
\* alias bucket are replaced by new ones; serviceCount and lastCheckAllTime
\* are not touched
Clear ==
    /\ lastMtime' = Rewound
    /\ firstUpdate' = TRUE
    /\ ids' = Cleared.ids
    /\ names' = Cleared.names
    /\ cl5Sid2Name' = Cleared.cl5Sid2Name
    /\ cl5Names' = Cleared.cl5Names
    /\ pendingServices' = Cleared.pendingServices
    /\ namespaceServiceCnt' = Cleared.namespaceServiceCnt
    /\ alias' = Cleared.alias
    /\ UNCHANGED <<serviceCount, lastCheckAllTime, revisionCh, envVars,
                   callVars, mergeVars, histVars, opVars>>

----------------------------------------------------------------------------
(* Specifications *)

\* the refresh under concurrent callers: plain services of one namespace
RefreshServices ==
    Services({"y"}, {"n1"}, {"a"}, {NoRef}, BOOLEAN, {NoMeta})

RefreshBatches == BatchesOver(IDs, RefreshServices)

MergeSteps ==
    \/ \E s \in AllServices : LoopStep(s)
    \/ SendDelete
    \/ SendUpsert
    \/ StoreNames
    \/ LoopEnd
    \/ Drain
    \/ \E n \in Namespaces : ResetCount(n)
    \/ \E n \in Namespaces : Recount(n)
    \/ MergeReturn

Next ==
    \/ \E c \in Callers : UpdateCall(c)
    \/ \E c \in Callers : CallerReturn(c)
    \/ FetchFail
    \/ \E b \in RefreshBatches, m \in 1 .. MaxMtime : FetchOk(b, m)
    \/ MergeSteps
    \/ Commit
    \/ \E count \in StoreCounts : CheckAll(count)
    \/ SfReturn(FALSE)
    \/ Receive
    \/ Tick

Spec == Init /\ [][Next]_vars

\* the refresh with the clock standing still
NextLive ==
    \/ \E c \in Callers : UpdateCall(c)
    \/ \E c \in Callers : CallerReturn(c)
    \/ FetchFail
    \/ \E b \in RefreshBatches : FetchOk(b, 1)
    \/ MergeSteps
    \/ Commit
    \/ \E count \in StoreCounts : CheckAll(count)
    \/ SfReturn(FALSE)
    \/ Receive

\* the goroutine inside Do keeps running, the store answers, and the consumer
\* of the revision channel keeps receiving
Fairness ==
    /\ WF_vars(Receive)
    /\ WF_vars(FetchFail \/ \E b \in RefreshBatches : FetchOk(b, 1))
    /\ WF_vars(MergeSteps)
    /\ WF_vars(Commit)
    /\ WF_vars(\E count \in StoreCounts : CheckAll(count))
    /\ WF_vars(SfReturn(FALSE))

SpecLive == Init /\ [][NextLive]_vars /\ Fairness

\* one caller merges batch after batch and the consumer drains the channel
\* between two refreshes.  y and z share a name; they vary in namespace, in
\* validity and (y) in the cl5 metadata
MergeServices ==
    Services({"y"}, Namespaces, {"a"}, {NoRef}, BOOLEAN, {NoMeta, "v"})
    \cup Services({"z"}, Namespaces, {"a"}, {NoRef}, BOOLEAN, {NoMeta})

MergeBatches == BatchesOver(IDs, MergeServices)

NextMerge ==
    \/ revisionCh = <<>> /\ UpdateCall("c1")
    \/ CallerReturn("c1")
    \/ \E b \in MergeBatches : FetchOk(b, 1)
    \/ MergeSteps
    \/ Commit
    \/ CheckAll(-1)
    \/ \E again \in BOOLEAN : SfReturn(again)
    \/ Receive

SpecMerge == Init /\ [][NextMerge]_vars

\* the same with aliases: y is a target, z is a plain service or an alias of y
AliasServices ==
    Services({"y"}, Namespaces, {"a"}, {NoRef}, BOOLEAN, {NoMeta})
    \cup Services({"z"}, {"n1"}, {"b"}, {NoRef, "y"}, BOOLEAN, {NoMeta})

AliasBatches == BatchesOver(IDs, AliasServices)

NextAlias ==
    \/ revisionCh = <<>> /\ UpdateCall("c1")
    \/ CallerReturn("c1")
    \/ \E b \in AliasBatches : FetchOk(b, 1)
    \/ MergeSteps
    \/ Commit
    \/ CheckAll(-1)
    \/ SfReturn(FALSE)
    \/ Receive

SpecAlias == Init /\ [][NextAlias]_vars

\* the service cache and the instance cache refresh independently
CountServices ==
    Services({"y"}, Namespaces, {"a"}, {NoRef}, BOOLEAN, {NoMeta})

CountBatches == BatchesOver(IDs, CountServices)

NextCount ==
    \/ revisionCh = <<>> /\ UpdateCall("c1")
    \/ CallerReturn("c1")
    \/ \E b \in CountBatches : FetchOk(b, 1)
    \/ MergeSteps
    \/ Commit
    \/ CheckAll(-1)
    \/ SfReturn(FALSE)
    \/ Receive
    \/ \E S \in SUBSET IDs, cnt \in InstCounts : InstanceReload(S, cnt)

SpecCount == Init /\ [][NextCount]_vars

\* the drain of the pending set: y comes and goes in n1, z lives in n2, and
\* the instance cache notifies while the service cache merges
DrainServices ==
    Services({"y"}, {"n1"}, {"a"}, {NoRef}, BOOLEAN, {NoMeta})
    \cup Services({"z"}, {"n2"}, {"b"}, {NoRef}, {TRUE}, {NoMeta})

DrainBatches == BatchesOver(IDs, DrainServices)

NextDrain ==
    \/ revisionCh = <<>> /\ UpdateCall("c1")
    \/ CallerReturn("c1")
    \/ \E b \in DrainBatches : FetchOk(b, 1)
    \/ MergeSteps
    \/ Commit
    \/ CheckAll(-1)
    \/ SfReturn(FALSE)
    \/ Receive
    \/ \E S \in SUBSET IDs : InstanceReload(S, [total |-> 1, healthy |-> 1])

SpecDrain == Init /\ [][NextDrain]_vars

\* merges, cache-miss loads, namespace drops and resets of one service that
\* moves between two namespaces
IndexServices ==
    Services({"y"}, Namespaces, {"a"}, {NoRef}, BOOLEAN, {NoMeta})

IndexBatches == BatchesOver(IDs, IndexServices)

\* what GetServiceByID of the store may answer
StoreServices == {s \in IndexServices : s.valid}

NextIndex ==
    \/ revisionCh = <<>> /\ UpdateCall("c1")
    \/ CallerReturn("c1")
    \/ \E b \in IndexBatches : FetchOk(b, 1)
    \/ MergeSteps
    \/ Commit
    \/ CheckAll(-1)
    \/ SfReturn(FALSE)
    \/ Receive
    \/ LoadMiss("y")
    \/ \E svc \in StoreServices : LoadStore(svc)
    \/ LoadNone
    \/ \E n \in Namespaces : CleanNamespace(n)
    \/ Clear

SpecIndex == Init /\ [][NextIndex]_vars


----------------------------------------------------------------------------
(* Properties *)

\* the callers of update() that have the result of the latest execution
Returned == {c \in Callers : pc[c] = "done" /\ ret[c].n = nRefresh}

\* C1: single-flight refresh.  At no time do two callers execute the
\* fetch-and-merge; one execution calls GetMoreServices exactly once, however
\* many callers joined it; and every caller that shared the execution
\* returns the outcome of that one execution.
C1_SingleFlight ==
    /\ Cardinality(running) <= 1
    /\ fetches <= 1
    /\ upc \in {"merge", "commit", "defer", "ret"} => fetches = 1
    /\ upc = "idle" /\ nRefresh > 0 =>
           /\ fetches = 1
           /\ flightErr \in {"ok", "err"}
           /\ \A c \in joined : pc[c] = "done" => ret[c] = [n |-> nRefresh, out |-> flightErr]
    /\ \A c \in Returned : c \in joined /\ ret[c].out = flightErr

\* C1 witness: three callers shared one execution and have all returned
C1_Witness ==
    /\ joined = Callers
    /\ Returned = Callers
    /\ fetches = 1

\* C2 as claimed: after a refresh whose fetch failed, checkAll included, the
\* high-watermark equals the high-watermark before the call
C2_Original ==
    upc = "ret" /\ flightErr = "err" => lastMtime = wmBefore

\* C2 amended: a refresh whose fetch failed returns the error and never
\* advances the high-watermark: up to checkAll it is the value before the
\* call; checkAll leaves it alone, or, when the drift check was due and ran
\* in this call, rewinds it; afterwards it is one of the two.
C2_FailedRefreshNeverAdvances ==
    /\ [](upc = "defer" /\ flightErr = "err" => lastMtime = wmBefore)
    /\ [](upc = "ret" /\ flightErr = "err" => lastMtime \in {wmBefore, Rewound})
    /\ [](flightErr = "err" => \A c \in Returned : ret[c].out = "err")
    /\ [][upc = "defer" /\ upc' = "ret" /\ flightErr = "err" =>
              \/ lastMtime' = lastMtime
              \/ /\ lastMtime' = Rewound
                 /\ CheckDue
                 /\ lastCheckAllTime' = now]_vars

\* C2 witness: a failed refresh ended with the watermark it began with, above
\* its initial value
C2_Witness ==
    /\ upc = "ret"
    /\ flightErr = "err"
    /\ wmBefore > 0
    /\ lastMtime = wmBefore


\* a merge has just returned to doCacheUpdate: pre is the cache before it
MergeDone == upc = "commit"

\* the alias a is linked to the target t exactly once
LinkedOnce(a, t) ==
    /\ a \in ListServiceAlias(t.ns, t.name)
    /\ Cardinality({l \in getServiceAliases(alias, t.ns, t.name) : l.aid = a}) = 1

\* C3: alias convergence across batches.  When an earlier batch left the
\* valid alias A in the primary index while its target T was not there, and
\* this batch delivers T valid (and A unchanged or not at all), then after
\* this merge aliasesOf(T.namespace, T.name) contains A exactly once.
C3_AliasConvergence ==
    MergeDone =>
        \A a \in IDs, t \in batch :
            ( /\ t.valid
              /\ pre.ids[t.id] = NoSvc
              /\ pre.ids[a] # NoSvc
              /\ pre.ids[a].ref = t.id
              /\ a \notin BatchIds(batch) \/ pre.ids[a] \in batch )
            => LinkedOnce(a, t)

\* the aggregate of the namespace counts x and x's current instance counts
Includes(cnt, x) ==
    /\ cnt.svc >= 1
    /\ cnt.total >= instCount[x].total
    /\ cnt.healthy >= instCount[x].healthy

\* C4: cross-cache race convergence.  Once an identifier is both in the
\* primary index and notified for a recount, one further refresh (whatever
\* its batch, the empty batch included) leaves its namespace aggregate
\* counting it and its current instance counts, in whichever order the two
\* events came.
C4_RaceConvergence ==
    MergeDone =>
        \A x \in known :
            ids[x] # NoSvc => Includes(GetNamespaceCntInfo(ids[x].ns), x)

\* the records of the batch by what they do to the primary index
Upserts(b, before) == {s \in b : s.valid /\ before[s.id] = NoSvc}
Deletes(b) == {s \in b : ~s.valid}
DeletesOfPresent(b, before) == {s \in b : ~s.valid /\ before[s.id] # NoSvc}

\* C5 as claimed: countAll() and the running total both change by U - D,
\* D counting every valid=false record
C5_Original ==
    MergeDone =>
        LET U == Cardinality(Upserts(batch, pre.ids))
            D == Cardinality(Deletes(batch))
        IN /\ GetServicesCount = Cardinality(Present(pre.ids)) + U - D
           /\ serviceCount = pre.serviceCount + U - D

\* C5 amended: countAll() changes by U - D', D' counting the valid=false
\* records whose identifier was in the primary index; the running total
\* changes by U - D, D counting every valid=false record.
C5_CountConsistency ==
    MergeDone =>
        LET U == Cardinality(Upserts(batch, pre.ids))
            D == Cardinality(Deletes(batch))
            DP == Cardinality(DeletesOfPresent(batch, pre.ids))
        IN /\ GetServicesCount = Cardinality(Present(pre.ids)) + U - DP
           /\ serviceCount = pre.serviceCount + U - D

\* C5 witness: a merge with a new upsert and a delete of an absent identifier
C5_Witness ==
    /\ MergeDone
    /\ Upserts(batch, pre.ids) # {}
    /\ Deletes(batch) # DeletesOfPresent(batch, pre.ids)

\* C6: idempotent re-merge.  When the batch just merged is the batch the
\* previous refresh merged, every index, the alias links, the namespace
\* aggregates, countAll() and the running total are as they were before it.
C6_IdempotentRemerge ==
    MergeDone /\ remerge = batch => Snapshot = pre

\* C7: empty-namespace aggregate removal.  After a merge, a namespace of the
\* batch that has no entity left in the primary index has no entry in the
\* namespace-aggregate map.
C7_EmptyNamespaceRemoved ==
    MergeDone =>
        \A n \in changeNs :
            (\A i \in IDs : ids[i] = NoSvc \/ ids[i].ns # n)
            => namespaceServiceCnt[n] = NoCnt

\* the messages the merge published for the record s
MessagesOf(s) == {k \in 1 .. Len(sent) : sent[k].id = s.id}

OnePerRecord ==
    /\ Len(sent) = Cardinality(batch)
    /\ \A s \in batch :
           /\ Cardinality(MessagesOf(s)) = 1
           /\ \A k \in MessagesOf(s) : sent[k].exists = s.valid

\* the merge changed what the cache holds for the record s
Changed(s) ==
    IF s.valid THEN pre.ids[s.id] # s ELSE pre.ids[s.id] # NoSvc

\* C8 as claimed: one message per record of the batch with exists = valid,
\* and a message only for a record whose state in the cache changed
C8_Original ==
    MergeDone => OnePerRecord /\ \A s \in batch : MessagesOf(s) # {} => Changed(s)

\* C8 amended: every merge puts on the revision channel exactly one message
\* per record of the batch, carrying the record's identifier and exists =
\* its valid flag, whether or not the record changed the cache; none is
\* dropped or duplicated.
C8_OneMessagePerRecord ==
    /\ MergeDone => OnePerRecord
    /\ upc = "merge" =>
           /\ Len(sent) <= Cardinality(batch \ todo)
           /\ mpc \in {"loop", "drain", "recount"} =>
                  Len(sent) = Cardinality(batch \ todo)

\* C8 witness: a merge published for a record that changed nothing and for a
\* delete of an absent identifier
C8_Witness ==
    /\ MergeDone
    /\ Len(sent) = 2
    /\ \E s, t \in batch : s.valid /\ ~Changed(s) /\ ~t.valid /\ ~Changed(t)

\* C9: delete/recreate.  When an identifier that was indexed and then
\* soft-deleted by a batch is delivered valid again, it is found after that
\* merge by identifier, by (namespace, name) and, with the cl5 keys, by legacy
\* name; and when the two batches held nothing else, countAll() and the
\* running total are what they were before the delete.
C9_DeleteRecreate ==
    MergeDone =>
        \A s \in batch :
            s.valid /\ delInfo[s.id].on =>
                /\ GetServiceByID(s.id) = s
                /\ GetServiceByName(s.name, s.ns) = s
                /\ HasCl5Name(s) => GetServiceByCl5Name(s.cl5) = s
                /\ delInfo[s.id].solo /\ batch = {s} =>
                       /\ GetServicesCount = delInfo[s.id].all
                       /\ serviceCount = delInfo[s.id].total


\* the merge stands at a send and the revision channel is full
Blocked ==
    /\ mpc \in {"rm_send", "up_send"}
    /\ Len(revisionCh) >= ChanCap

InUpdate == {c \in Callers : pc[c] \in {"wait", "lead"}}

\* C10: notification back-pressure.  While the revision channel is full the
\* merge stays at its publish step with nothing published or skipped, the
\* refresh does not complete and no caller of update() returns; the channel
\* never holds more than its capacity; a merge ends with one message
\* published per record of its batch; and when the consumer keeps receiving,
\* every refresh terminates.
C10_BackPressure ==
    /\ [][Blocked => /\ mpc' = mpc
                     /\ cur' = cur
                     /\ todo' = todo
                     /\ upc' = "merge"
                     /\ sent' = sent
                     /\ \A c \in InUpdate : pc'[c] = pc[c]]_vars
    /\ [](Len(revisionCh) <= ChanCap)
    /\ [](upc \in {"commit", "defer", "ret"} /\ flightErr # "err"
             => Len(sent) = Cardinality(batch))
    /\ (upc # "idle") ~> (upc = "idle")

\* C10 witness: the merge is blocked at a send with two callers waiting on it
C10_Witness ==
    /\ Blocked
    /\ Cardinality(InUpdate) = 3

\* no refresh is merging and no cache-miss load is in flight
Quiescent == upc \in {"idle", "commit", "defer", "ret"} /\ loading = NoRef

\* C11: running-total invariant.  In every quiescent state reached by
\* merges, cache-miss loads, namespace drops and resets, the running total
\* serviceCount equals the number of entries of the primary index.
C11_RunningTotal ==
    Quiescent => serviceCount = GetServicesCount

\* the (namespace, name) index holds the object s under s's namespace and name
InNames(s) == GetServiceByName(s.name, s.ns) = s

\* the entries of the (namespace, name) index
NameEntries ==
    {names[n][m] : n \in {x \in Namespaces : names[x] # NoMap}, m \in Names}
        \ {NoSvc}

\* C12: primary/name index consistency.  In every quiescent state reached by
\* merges, cache-miss loads and namespace drops, an entity is in the primary
\* index if and only if the (namespace, name) index maps its namespace and
\* name to the same object.
C12_IndexConsistency ==
    Quiescent =>
        /\ \A i \in Present(ids) : InNames(ids[i])
        /\ \A s \in NameEntries : GetServiceByID(s.id) = s

\* the indices hold nothing with the identifier id
Purged(id) ==
    /\ GetServiceByID(id) = NoSvc
    /\ \A s \in NameEntries : s.id # id
    /\ \A k \in Present(cl5Names) : cl5Names[k].id # id
    /\ \A l \in alias : l.aid # id /\ l.tid # id
    /\ id \notin pendingServices

\* the legacy-name entries of the entities the batch does not deliver are
\* what they were before the merge
LegacyKept ==
    \A k \in Present(pre.cl5Names) :
        pre.cl5Names[k].id \notin BatchIds(batch) => cl5Names[k] = pre.cl5Names[k]

\* C13: soft-delete purge.  After a merge that processed a valid=false record
\* for an identifier, no index holds an entity with that identifier (primary,
\* (namespace, name), legacy-name, alias bucket, pending set), whatever name
\* and namespace the delete record carries; and the delete does not remove
\* the legacy-name entry of another entity.
C13_SoftDeletePurge ==
    MergeDone /\ Deletes(batch) # {} =>
        /\ \A s \in Deletes(batch) : Purged(s.id)
        /\ LegacyKept

\* the entities of the primary index that are in the namespace
MembersOf(namespace) == {i \in Present(ids) : ids[i].ns = namespace}

RECURSIVE SumOver(_, _)
\* the sum of the instance counts of the identifiers S
SumOver(S, field) ==
    IF S = {} THEN 0
    ELSE LET i == CHOOSE x \in S : TRUE
         IN instCount[i][field] + SumOver(S \ {i}, field)

\* C14: aggregate correctness after reconciliation.  When a merge completes,
\* for every namespace of its affected set that still has members in the
\* primary index, the aggregate's service count is the number of those
\* members and its total and healthy counts are the sums of their instance
\* counts.
C14_AggregateCorrect ==
    MergeDone =>
        \A n \in affected :
            MembersOf(n) # {} =>
                /\ GetNamespaceCntInfo(n).svc = Cardinality(MembersOf(n))
                /\ GetNamespaceCntInfo(n).total = SumOver(MembersOf(n), "total")
                /\ GetNamespaceCntInfo(n).healthy = SumOver(MembersOf(n), "healthy")

\* the step of checkAll in which the store's count differs from the running
\* total
DriftFires == upc = "defer" /\ upc' = "ret" /\ drift' # NoDrift

\* C15: drift detection resets the cache.  When checkAll finds the running
\* total different from the store's count, every index is cleared and the
\* high-watermark is rewound, as clear() does.
C15_DriftResets ==
    [][DriftFires => Indices' = Cleared /\ lastMtime' = Rewound]_vars

\* the valid records of a batch: what the store counts
ValidOf(b) == {s \in b : s.valid}

\* the refresh merged the full snapshot of a store that has not changed since
\* the drift check of the refresh before fired
ResyncDone ==
    /\ MergeDone
    /\ drift # NoDrift
    /\ wmBefore = Rewound
    /\ Cardinality(ValidOf(batch)) = drift

\* C16: drift self-healing.  When the drift check has fired and the next
\* refresh fetched and merged the full snapshot of the unchanged store, the
\* running total equals the store's count.
C16_DriftHeals ==
    ResyncDone => serviceCount = drift

\* the times of two count queries are a check interval apart
Throttled ==
    \A i, j \in DOMAIN queried :
        i < j => queried[j] - queried[i] >= checkAllIntervalSec

\* C17: drift check outcome and throttle.  checkAll never changes the result
\* update() returns: the callers get the outcome of the fetch and merge,
\* whatever the store's count query answered; a mismatch rewinds the
\* high-watermark, a match or a failed query leaves it; and two count
\* queries are at least a check interval apart.
C17_DriftCheckOutcome ==
    /\ [][upc = "defer" /\ upc' = "ret" =>
              /\ flightErr' = flightErr
              /\ lastMtime' = IF drift' # NoDrift THEN Rewound ELSE lastMtime]_vars
    /\ [](upc = "idle" /\ nRefresh > 0 =>
              \A c \in Returned : ret[c].out = flightErr)
    /\ [](upc = "ret" => flightErr = IF fetches = 1 /\ pre # NoPre THEN "ok" ELSE "err")
    /\ []Throttled

\* C17 witness: a refresh that succeeded ends with a mismatch found by the
\* second count query, after a refresh that made no query
C17_Witness ==
    /\ upc = "ret"
    /\ flightErr = "ok"
    /\ drift # NoDrift
    /\ Len(queried) = 2
    /\ nRefresh = 3

\* C18: alias-link invariant.  In every state reached by merges, with aliases
\* and targets upserted or soft-deleted in any batch and in any order within
\* a batch, a link (alias, target) is in the alias bucket only if the alias
\* and the target are both in the primary index.
C18_AliasLinkInvariant ==
    \A l \in alias :
        /\ GetServiceByID(l.aid) # NoSvc
        /\ GetServiceByID(l.tid) # NoSvc

\* C18 witness: a merge that soft-deleted the target of a link has ended, the
\* alias is still in the primary index and the bucket is empty
C18_Witness ==
    /\ MergeDone
    /\ pre.alias # {}
    /\ \E l \in pre.alias :
           /\ \E s \in Deletes(batch) : s.id = l.tid
           /\ GetServiceByID(l.aid) # NoSvc
    /\ alias = {}

\* the alias bucket holds no link of the alias a
Unlinked(a) == \A l \in alias : l.aid # a

\* C19: alias linking is independent of batch order.  When a batch holds a
\* valid alias and its valid target, the alias is linked to the target after
\* the merge, whichever the loop took first; when a batch soft-deletes an
\* alias while its target is in the primary index, the link is absent after
\* the merge.
C19_AliasOrderIndependent ==
    MergeDone =>
        /\ \A a, t \in batch :
               a.valid /\ t.valid /\ a.ref = t.id => LinkedOnce(a.id, t)
        /\ \A a \in Deletes(batch) :
               IsAlias(a) /\ GetServiceByID(a.ref) # NoSvc => Unlinked(a.id)

\* C19 witness: the loop took the alias before its target, which was not
\* indexed, and the merge linked them
C19_Witness ==
    /\ MergeDone
    /\ Len(sent) = 2
    /\ \E a, t \in batch :
           /\ a.valid /\ t.valid /\ a.ref = t.id
           /\ sent[1].id = a.id
           /\ pre.ids[t.id] = NoSvc
           /\ LinkedOnce(a.id, t)

\* the pending identifiers that are in the primary index
PendingIndexed == {p \in pendingServices : GetServiceByID(p) # NoSvc}

\* the notification of x is not lost: x is still pending, or the drain handed
\* its namespace to the recount, or the batch soft-deleted x
Served(x) ==
    \/ x \in pendingServices
    \/ GetServiceByID(x) # NoSvc /\ ids[x].ns \in affected
    \/ x \in BatchIds(Deletes(batch) \ todo)

\* C20: pending-set drain.  A drain removes from the pending set exactly the
\* pending identifiers that are in the primary index, adds the namespace of
\* each to the affected set and leaves the others pending; and a notification
\* that arrives while a refresh runs, before or after its drain, is not lost:
\* the identifier is still pending or its namespace is in the affected set of
\* that reconciliation.
C20_PendingDrain ==
    /\ [][mpc = "drain" /\ mpc' = "recount" =>
              /\ pendingServices' = pendingServices \ PendingIndexed
              /\ affected' = changeNs \cup {ids[p].ns : p \in PendingIndexed}
              /\ affect' = affected']_vars
    /\ [](upc # "idle" => \A x \in noted : Served(x))

\* C20 witness: a merge whose batch does not hold y drained y, handing its
\* namespace to the recount, and z was notified after the drain
C20_Witness ==
    /\ MergeDone
    /\ "y" \in noted \ pendingServices
    /\ "y" \notin BatchIds(batch)
    /\ affected = Namespaces
    /\ "z" \in noted \cap pendingServices
    /\ GetServiceByID("z") # NoSvc

\* what a reader finds for the record s: by identifier and by (namespace, name)
ViewOf(idx, nm, s) ==
    [byId |-> idx[s.id],
     byName |-> IF nm[s.ns] = NoMap THEN NoSvc ELSE nm[s.ns][s.name]]

\* a reader finds the upserted record s as it was before the merge or as the
\* merge leaves it, in both indices alike
RecordWhole(s) ==
    ViewOf(ids, names, s) \in {ViewOf(pre.ids, pre.names, s), [byId |-> s, byName |-> s]}

\* the record s is findable in every index it belongs to
Findable(s) ==
    /\ GetServiceByID(s.id) = s
    /\ GetServiceByName(s.name, s.ns) = s
    /\ HasCl5Name(s) => GetServiceByCl5Name(s.cl5) = s

\* the merge has published exists=true for the record the loop is at
UpsertPublished(s) ==
    s = cur /\ \E k \in DOMAIN sent : sent[k] = [id |-> s.id, exists |-> TRUE]

\* what GetNamespaceCntInfo answered for the namespace before the merge
AggregateBefore(namespace) ==
    IF pre.namespaceServiceCnt[namespace] = NoCnt THEN ZeroCnt
    ELSE pre.namespaceServiceCnt[namespace]

\* what it answers once the recount of the namespace is done
AggregateAfter(namespace) ==
    SumCnt(names[namespace], Present(names[namespace]), instCount)

\* a reader of the aggregate of a namespace under recount gets the value
\* before the reconciliation or the value after it
AggregateWhole ==
    \A n \in Namespaces :
        mpc = RangeAt(n) =>
            GetNamespaceCntInfo(n) \in {AggregateBefore(n), AggregateAfter(n)}

\* no reader finds an upserted record of the batch in one index only
RecordsWhole == \A s \in ValidOf(batch) : RecordWhole(s)

\* no exists=true message is out before its record is findable
PublishedFindable ==
    \A s \in ValidOf(batch) : UpsertPublished(s) => Findable(s)

\* C21: record-level read consistency during a merge.  In every state of a
\* merge, a reader finds each upserted record fully as before the merge or
\* fully as after it (by identifier and by (namespace, name) alike), the
\* exists=true message of a record is published only when the record is
\* findable in every index, and the aggregate of a namespace is the value
\* before the reconciliation or the value after it, never a partial one.
C21_ReadConsistency ==
    upc = "merge" => RecordsWhole /\ PublishedFindable /\ AggregateWhole

====
